---------------------------- MODULE Spec2Model ----------------------------
(* A model of the word generator of src/wordgen.go: the odometer counter   *)
(* (nextState), the ring buffer with its two cursors, the producer         *)
(* goroutine (runGenerator), the consumer calls Next and Batch, and the    *)
(* lifecycle calls Run and Stop.                                           *)
(*                                                                         *)
(* Every section the code runs between pg.mu.Lock() and the matching       *)
(* Unlock() (or genCond.Wait(), which unlocks) is one atomic action.       *)
(* A byte is a one-character string, a word a sequence of bytes.           *)
EXTENDS Integers, Sequences, FiniteSets, Bags, TLC

-----------------------------------------------------------------------------
(* Bounds of the model.                                                    *)

\* Largest charset drawn for a configuration.
MaxCharset == 3
\* Largest MaxLen drawn for a configuration.
MaxLenBound == 2
\* Largest BufferSize requested in the runs of the engine.
MaxBufferSize == 2
\* Number of consumer goroutines in the runs with several consumers.
NumConsumers == 2
\* Largest len(words) passed to Batch in the runs with several consumers.
MaxBatch == 1
\* Largest len(words) passed to Batch in the runs with one consumer.
MaxBatchSolo == 3
\* Width, in bits, of the model's unsigned integers (uint64 in the code).
WordBits == 7

(* Program constants.                                                      *)
defaultMinLen == 8
defaultMaxLen == 10
minBufferSize == 1

\* wordgen.go:17-23.  The default charset, one byte per element.
defaultCharset ==
    << "a","b","c","d","e","f","g","h","i","j","k","l","m",
       "n","o","p","q","r","s","t","u","v","w","x","y","z",
       "A","B","C","D","E","F","G","H","I","J","K","L","M",
       "N","O","P","Q","R","S","T","U","V","W","X","Y","Z",
       "0","1","2","3","4","5","6","7","8","9" >>

-----------------------------------------------------------------------------
(* Unsigned arithmetic at the model's width.                               *)

RECURSIVE Pow(_, _)
Pow(b, e) == IF e = 0 THEN 1 ELSE b * Pow(b, e - 1)

\* Number of values of an unsigned integer: 2^64 in the code.
UintRange == Pow(2, WordBits)

\* a + b, a - b and 1 << k on unsigned integers: they wrap.
UAdd(a, b) == (a + b) % UintRange
USub(a, b) == (a - b + UintRange) % UintRange
UShl1(k) == IF k >= WordBits THEN 0 ELSE Pow(2, k)

\* a & b.
RECURSIVE BitAnd(_, _)
BitAnd(a, b) ==
    IF a = 0 \/ b = 0 THEN 0
    ELSE (a % 2) * (b % 2) + 2 * BitAnd(a \div 2, b \div 2)

\* bits.Len64(n): the number of bits needed to represent n.
RECURSIVE Len64(_)
Len64(n) == IF n = 0 THEN 0 ELSE 1 + Len64(n \div 2)

\* A plausible slip of roundToNearestPowerOfTwo: always round up.
roundUpToPowerOfTwo(n) ==
    IF n = 0 THEN 1
    ELSE IF BitAnd(n, USub(n, 1)) = 0 THEN n
    ELSE UShl1(Len64(n))

\* wordgen.go:397-417.
roundToNearestPowerOfTwo(n) ==
    IF n = 0 THEN 1
    ELSE IF BitAnd(n, USub(n, 1)) = 0 THEN n
    ELSE LET next == UShl1(Len64(n))
             prev == next \div 2
         IN  IF USub(n, prev) < USub(next, n) THEN prev ELSE next

-----------------------------------------------------------------------------
(* Construction.                                                           *)

\* bytes.IndexByte(s, c): the 0-based index of the first c in s, or -1.
IndexByte(s, c) ==
    IF \E i \in 1..Len(s) : s[i] = c
    THEN (CHOOSE i \in 1..Len(s) : s[i] = c /\ \A j \in 1..(i - 1) : s[j] # c) - 1
    ELSE -1

\* wordgen.go:96-103: some byte of the charset occurs twice.
HasDuplicate(s) == \E i, j \in 1..Len(s) : i < j /\ s[i] = s[j]

\* wordgen.go:63-81: the defaults NewWordGen fills in.
WithDefaults(cfg) ==
    [ Charset      |-> IF cfg.Charset = <<>> THEN defaultCharset ELSE cfg.Charset,
      InitialState |-> cfg.InitialState,
      MinLen       |-> IF cfg.MinLen = 0 THEN defaultMinLen ELSE cfg.MinLen,
      MaxLen       |-> IF cfg.MaxLen = 0 THEN defaultMaxLen ELSE cfg.MaxLen,
      BufferSize   |-> IF cfg.BufferSize < minBufferSize THEN minBufferSize
                       ELSE cfg.BufferSize ]

\* wordgen.go:62-142: the error NewWordGen returns, "nil" for none.  The
\* MinLen > MaxLen check comes before the defaulting of BufferSize; neither
\* depends on the other.
NewWordGenErr(cfg) ==
    LET c == WithDefaults(cfg)
        s == c.InitialState
    IN  IF c.MinLen > c.MaxLen THEN "min length cannot be greater than max length"
        ELSE IF HasDuplicate(c.Charset) THEN "duplicate character in charset"
        ELSE IF Len(s) > 0 /\ Len(s) < c.MinLen
             THEN "initial state is less than min length"
        ELSE IF Len(s) > 0 /\ Len(s) > c.MaxLen
             THEN "initial state is greater than max length"
        ELSE IF \E i \in 1..Len(s) : IndexByte(c.Charset, s[i]) < 0
             THEN "initial state contains character not in charset"
        ELSE "nil"

\* A plausible slip of NewWordGen: the InitialState is dropped and the
\* counter starts at MinLen zeros.
InitialDigitsZero(cfg) == [i \in 1..WithDefaults(cfg).MinLen |-> 0]

\* wordgen.go:105-125: pg.initialState, the digits of the starting word, or
\* MinLen zeros when no InitialState is configured.
InitialDigits(cfg) ==
    LET c == WithDefaults(cfg)
        s == c.InitialState
    IN  IF Len(s) > 0
        THEN [i \in 1..Len(s) |-> IndexByte(c.Charset, s[i])]
        ELSE [i \in 1..c.MinLen |-> 0]

-----------------------------------------------------------------------------
(* The state.                                                              *)

\* Largest number of calls of Run in a behaviour.
MaxRuns == 2

Runs == 1..MaxRuns

VARIABLES
    request,       \* the Config passed to NewWordGen
    constructed,   \* NewWordGen has returned the engine
    config,        \* pg.config: the Config with its defaults filled in
    charset,       \* pg.charset
    charsetLen,    \* pg.charsetLen
    initialState,  \* pg.initialState
    bufSize,       \* pg.bufSize
    bufMask,       \* pg.bufMask
    buf,           \* pg.buf: slot index (0-based) -> word
    bufR,          \* pg.bufR
    bufW,          \* pg.bufW
    generated,     \* pg.generated
    state,         \* pg.state: the digits, state[1] is the code's state[0]
    stateLen,      \* pg.stateLen
    nsErr,         \* what the last call of nextState returned, "none" before
    nsDone,        \* nextState has returned io.EOF since the last Run
    running,       \* pg.running
    nRuns,         \* number of calls of Run that started a run
    ppc,           \* per run: where its producer goroutine is
    ctx,           \* per run: its context and the goroutine watching it
    startTime,     \* pg.startTime: 0 for the zero Time, r for the time of Run r
    endTime,       \* pg.endTime: 0 for the zero Time, r for the end of run r
    errCh,         \* per run: the values sent on its errCh, and whether closed
    genRet,        \* per run: what runGenerator returned, "none" before
    runRet,        \* what the last call of Run returned: error and channel
    cons,          \* the consumers: how many are at each point of a call
    produced,      \* history: the words committed to the buffer, in order
    delivered,     \* history: the words handed to consumers, in order
    eofSeen,       \* history: some call of Next has returned io.EOF
    via,           \* history: the calls ("Next", "Batch") that delivered words
    view           \* the slice Next returned last, until the next call

pgVars   == <<request, constructed, config, charset, charsetLen, initialState,
              bufSize, bufMask>>
bufVars  == <<buf, bufR, bufW, generated>>
ctrVars  == <<state, stateLen, nsErr, nsDone>>
runVars  == <<nRuns, ppc, ctx>>
lifeVars == <<startTime, endTime, errCh, genRet, runRet>>
histVars == <<produced, delivered, eofSeen, via, view>>
vars     == <<pgVars, bufVars, ctrVars, runVars, lifeVars, running, cons,
              histVars>>

\* wordgen.go:148: errCh as make leaves it, nothing sent and open.
NoChannel == [sent |-> <<>>, closed |-> FALSE]

\* Run has not been called: no error and no channel (0) returned.
NotCalled == [err |-> "none", ch |-> 0]

\* No slice of Next is in a consumer's hands.
NoView == [slot |-> -1, word |-> <<>>]

\* A consumer that is in no call.  The consumer goroutines run the same
\* code and nothing tells them apart, so cons is the bag of their states.
\* op, n: the call and len(words); count: the words Batch has copied; err:
\* the error Next returned; ran: pg.running when the call returned.  The
\* words the calls return are kept in the history delivered.
Idle ==
    [ pc |-> "idle", op |-> "none", n |-> 0, count |-> 0, err |-> "nil",
      ran |-> FALSE ]

\* The state before NewWordGen(cfg) is called.
Unbuilt(cfg) ==
    /\ request = cfg
    /\ constructed = FALSE
    /\ config = cfg
    /\ charset = <<>>
    /\ charsetLen = 0
    /\ initialState = <<>>
    /\ bufSize = 0
    /\ bufMask = 0
    /\ buf = <<>>
    /\ bufR = 0
    /\ bufW = 0
    /\ generated = 0
    /\ state = <<>>
    /\ stateLen = 0
    /\ nsErr = "none"
    /\ nsDone = FALSE
    /\ running = FALSE
    /\ nRuns = 0
    /\ ppc = [r \in Runs |-> "none"]
    /\ ctx = [r \in Runs |-> "none"]
    /\ startTime = 0
    /\ endTime = 0
    /\ errCh = [r \in Runs |-> NoChannel]
    /\ genRet = [r \in Runs |-> "none"]
    /\ runRet = NotCalled
    /\ cons = [s \in {Idle} |-> NumConsumers]
    /\ produced = <<>>
    /\ delivered = <<>>
    /\ eofSeen = FALSE
    /\ via = {}
    /\ view = NoView

\* wordgen.go:62-142: the engine NewWordGen(cfg) returns when it returns no
\* error, with nc consumers about to use it.  state is empty and stateLen 0
\* until Run; every slot is empty.
Built(cfg, nc) ==
    /\ NewWordGenErr(cfg) = "nil"
    /\ request = cfg
    /\ constructed = TRUE
    /\ config = WithDefaults(cfg)
    /\ charset = WithDefaults(cfg).Charset
    /\ charsetLen = Len(WithDefaults(cfg).Charset)
    /\ initialState = InitialDigits(cfg)
    /\ bufSize = roundToNearestPowerOfTwo(WithDefaults(cfg).BufferSize)
    /\ bufMask = USub(roundToNearestPowerOfTwo(WithDefaults(cfg).BufferSize), 1)
    /\ buf = [k \in 0..(roundToNearestPowerOfTwo(WithDefaults(cfg).BufferSize) - 1)
                |-> <<>>]
    /\ bufR = 0
    /\ bufW = 0
    /\ generated = 0
    /\ state = <<>>
    /\ stateLen = 0
    /\ nsErr = "none"
    /\ nsDone = FALSE
    /\ running = FALSE
    /\ nRuns = 0
    /\ ppc = [r \in Runs |-> "none"]
    /\ ctx = [r \in Runs |-> "none"]
    /\ startTime = 0
    /\ endTime = 0
    /\ errCh = [r \in Runs |-> NoChannel]
    /\ genRet = [r \in Runs |-> "none"]
    /\ runRet = NotCalled
    /\ cons = [s \in {Idle} |-> nc]
    /\ produced = <<>>
    /\ delivered = <<>>
    /\ eofSeen = FALSE
    /\ via = {}
    /\ view = NoView

\* wordgen.go:62-142: the call NewWordGen(request), when it succeeds.
NewWordGen ==
    /\ ~constructed
    /\ NewWordGenErr(request) = "nil"
    /\ constructed' = TRUE
    /\ config' = WithDefaults(request)
    /\ charset' = WithDefaults(request).Charset
    /\ charsetLen' = Len(WithDefaults(request).Charset)
    /\ initialState' = InitialDigits(request)
    /\ bufSize' = roundToNearestPowerOfTwo(WithDefaults(request).BufferSize)
    /\ bufMask' = USub(roundToNearestPowerOfTwo(WithDefaults(request).BufferSize), 1)
    /\ buf' = [k \in 0..(roundToNearestPowerOfTwo(WithDefaults(request).BufferSize) - 1)
                 |-> <<>>]
    /\ UNCHANGED <<request, bufR, bufW, generated, ctrVars, runVars, lifeVars, running,
                   cons, histVars>>

-----------------------------------------------------------------------------
(* The counter.                                                            *)

\* A plausible slip of the encoding: the most significant digit first.
DecodeReversed(st, sl) == [i \in 1..sl |-> charset[st[sl + 1 - i] + 1]]

\* A plausible slip of the loop of lines 343-345: it stops one byte early.
DecodeTruncated(st, sl) == [i \in 1..(sl - 1) |-> charset[st[i] + 1]]

\* wordgen.go:343-345: the word the digits st[1..sl] stand for, digit i of
\* the code at position i of the word.
Decode(st, sl) == [i \in 1..sl |-> charset[st[i] + 1]]

\* wordgen.go:370-395: the loop of nextState from index i (0-based) on:
\* the digits and the length it leaves, and the error it returns.
RECURSIVE nextStateFrom(_, _, _)
nextStateFrom(st, sl, i) ==
    IF i >= sl
    THEN IF sl + 1 > config.MaxLen
         THEN [state |-> st, stateLen |-> sl + 1, err |-> "EOF"]
         ELSE [state |-> Append(st, 0), stateLen |-> sl + 1, err |-> "nil"]
    ELSE IF i + 1 > Len(st)
         THEN [state |-> st, stateLen |-> sl, err |-> "panic"]
    ELSE IF st[i + 1] + 1 < charsetLen
         THEN [state |-> [st EXCEPT ![i + 1] = st[i + 1] + 1], stateLen |-> sl,
               err |-> "nil"]
    ELSE nextStateFrom([st EXCEPT ![i + 1] = 0], sl, i + 1)

\* A plausible slip of the test of line 375, >= for >: the counter stops
\* one length early.
nextStateStopsEarly(st, sl) ==
    LET nx == nextStateFrom(st, sl, 0)
    IN  IF nx.stateLen > sl /\ nx.stateLen >= config.MaxLen
        THEN [state |-> st, stateLen |-> nx.stateLen, err |-> "EOF"]
        ELSE nx

\* wordgen.go:370-395.
nextState(st, sl) == nextStateFrom(st, sl, 0)

\* wordgen.go:354, 370-395: one call of nextState on the engine's counter,
\* as runGenerator makes it, here without the buffer around it.  After a
\* panic there is nothing left to call.
NextStateCall ==
    /\ constructed
    /\ nRuns > 0
    /\ nsErr # "panic"
    /\ state' = nextState(state, stateLen).state
    /\ stateLen' = nextState(state, stateLen).stateLen
    /\ nsErr' = nextState(state, stateLen).err
    /\ nsDone' = (nsDone \/ nextState(state, stateLen).err = "EOF")
    /\ UNCHANGED <<pgVars, bufVars, runVars, lifeVars, running, cons, histVars>>

-----------------------------------------------------------------------------
(* Run, Stop and the context.                                              *)

\* wordgen.go:147-194: the r-th call of Run that finds the engine stopped.
\* It resets the counter and the cursors and starts the two goroutines.
\* (A call that finds the engine running returns an error and changes
\* nothing.)
Run(r) ==
    /\ constructed
    /\ nRuns = r - 1
    /\ ~running
    /\ state' = initialState
    /\ stateLen' = Len(initialState)
    /\ nsErr' = "none"
    /\ nsDone' = FALSE
    /\ bufR' = 0
    /\ bufW' = 0
    /\ running' = TRUE
    /\ nRuns' = r
    /\ ppc' = [ppc EXCEPT ![r] = "loop"]
    /\ ctx' = [ctx EXCEPT ![r] = "live"]
    /\ startTime' = r
    /\ endTime' = 0
    /\ runRet' = [err |-> "nil", ch |-> r]
    /\ UNCHANGED <<pgVars, buf, generated, errCh, genRet, cons, histVars>>

\* A plausible slip of Run: the test of pg.running is missing, and a call
\* that finds the engine running resets the cursors and the counter too.
RunAgainResets ==
    /\ constructed
    /\ running
    /\ state' = initialState
    /\ stateLen' = Len(initialState)
    /\ UNCHANGED <<nsErr, nsDone>>
    /\ bufR' = 0
    /\ bufW' = 0
    /\ runRet' = [err |-> "generator is already running", ch |-> 0]
    /\ UNCHANGED <<pgVars, buf, generated, runVars, startTime, endTime, errCh,
                   genRet, running, cons, histVars>>

\* wordgen.go:150-154: a call of Run that finds the engine running returns
\* a nil channel and an error, and does nothing else (the errCh it made is
\* dropped).
RunAgain ==
    /\ constructed
    /\ running
    /\ runRet' = [err |-> "generator is already running", ch |-> 0]
    /\ UNCHANGED <<pgVars, bufVars, ctrVars, runVars, startTime, endTime, errCh,
                   genRet, running, cons, histVars>>

\* A plausible slip of Stats: the words in the buffer for the words
\* generated.
StatsBuffered ==
    IF startTime = 0 THEN [generated |-> 0, elapsed |-> "zero"]
    ELSE [generated |-> USub(bufW, bufR),
          elapsed |-> IF endTime = 0 THEN "since start" ELSE "end - start"]

\* wordgen.go:198-214: what Stats returns, read under the lock: the count
\* and the duration (0, the time since startTime, or endTime - startTime).
Stats ==
    IF startTime = 0 THEN [generated |-> 0, elapsed |-> "zero"]
    ELSE [generated |-> generated,
          elapsed |-> IF endTime = 0 THEN "since start" ELSE "end - start"]

\* wordgen.go:308-313.
Stop ==
    /\ constructed
    /\ running' = FALSE
    /\ UNCHANGED <<pgVars, bufVars, ctrVars, runVars, lifeVars, cons, histVars>>

\* wordgen.go:173-178: the context passed to the r-th Run is cancelled (or
\* its deadline passes) and the goroutine waiting on ctx.Done() clears
\* running.  Nothing else reads the context, so the two are one step.
CtxDone(r) ==
    /\ ctx[r] = "live"
    /\ ctx' = [ctx EXCEPT ![r] = "done"]
    /\ running' = FALSE
    /\ UNCHANGED <<pgVars, bufVars, ctrVars, nRuns, ppc, lifeVars, cons,
                   histVars>>

-----------------------------------------------------------------------------
(* The producer goroutine.                                                 *)

\* The bag of consumers after one in state s has gone to state t.
Moved(s, t) == (cons (-) SetToBag({s})) (+) SetToBag({t})

\* The states of the consumers parked in genCond.Wait().
Waiters == {s \in BagToSet(cons) : s.pc = "wait"}

\* genCond.Signal(): one parked consumer, if there is any, is made
\* runnable; it re-takes the lock in a later step.
Signalled ==
    IF Waiters = {} THEN {cons}
    ELSE {Moved(w, [w EXCEPT !.pc = "woken"]) : w \in Waiters}

\* A plausible slip of the full test: off by one, the producer also writes
\* when the buffer holds bufSize words.
BufferFullLate == USub(bufW, bufR) > bufSize

\* wordgen.go:327.
BufferFull == USub(bufW, bufR) >= bufSize

\* A plausible slip of the error handling: io.EOF is passed on.
ReturnOfRaw(err) == err

\* wordgen.go:355-363: what runGenerator returns when nextState returns
\* the error err: nil for io.EOF, the wrapped error otherwise.
ReturnOf(err) == IF err = "EOF" THEN "nil" ELSE "generateNext"

\* A plausible slip of the loop: the full test comes before the test of
\* pg.running, and a producer held off by a full buffer does not see the
\* stop.
ProducerStepFullFirst(r) ==
    /\ ppc[r] = "loop"
    /\ IF BufferFull
       THEN UNCHANGED <<ppc, genRet, bufVars, ctrVars, cons, produced>>
       ELSE IF ~running
       THEN /\ ppc' = [ppc EXCEPT ![r] = "returned"]
            /\ genRet' = [genRet EXCEPT ![r] = "nil"]
            /\ UNCHANGED <<bufVars, ctrVars, cons, produced>>
       ELSE IF stateLen > config.MaxLen
       THEN \* (*buf)[:pg.stateLen] beyond the capacity of the slot
            /\ ppc' = [ppc EXCEPT ![r] = "panicked"]
            /\ UNCHANGED <<genRet, bufVars, ctrVars, cons, produced>>
       ELSE LET word == Decode(state, stateLen)
                nx   == nextState(state, stateLen)
            IN  /\ buf' = [buf EXCEPT ![BitAnd(bufW, bufMask)] = word]
                /\ bufW' = UAdd(bufW, 1)
                /\ generated' = UAdd(generated, 1)
                /\ produced' = Append(produced, word)
                /\ cons' \in Signalled
                /\ state' = nx.state
                /\ stateLen' = nx.stateLen
                /\ nsErr' = nx.err
                /\ nsDone' = (nsDone \/ nx.err = "EOF")
                /\ ppc' = [ppc EXCEPT ![r] =
                              IF nx.err = "nil" THEN "loop"
                              ELSE IF nx.err = "EOF" THEN "returned"
                              ELSE "panicked"]
                /\ genRet' = [genRet EXCEPT ![r] =
                                 IF nx.err = "EOF" THEN ReturnOf(nx.err) ELSE @]
                /\ bufR' = bufR
    /\ UNCHANGED <<pgVars, nRuns, ctx, startTime, endTime, errCh, runRet,
                   running, delivered, eofSeen, via, view>>

\* wordgen.go:319-365: one iteration of the loop of runGenerator, in the
\* goroutine of run r.
ProducerStep(r) ==
    /\ ppc[r] = "loop"
    /\ IF ~running
       THEN /\ ppc' = [ppc EXCEPT ![r] = "returned"]
            /\ genRet' = [genRet EXCEPT ![r] = "nil"]
            /\ UNCHANGED <<bufVars, ctrVars, cons, produced>>
       ELSE IF BufferFull
       THEN \* time.Sleep, then the next iteration: a pure delay
            UNCHANGED <<ppc, genRet, bufVars, ctrVars, cons, produced>>
       ELSE IF stateLen > config.MaxLen
       THEN \* (*buf)[:pg.stateLen] beyond the capacity of the slot
            /\ ppc' = [ppc EXCEPT ![r] = "panicked"]
            /\ UNCHANGED <<genRet, bufVars, ctrVars, cons, produced>>
       ELSE LET word == Decode(state, stateLen)
                nx   == nextState(state, stateLen)
            IN  /\ buf' = [buf EXCEPT ![BitAnd(bufW, bufMask)] = word]
                /\ bufW' = UAdd(bufW, 1)
                /\ generated' = UAdd(generated, 1)
                /\ produced' = Append(produced, word)
                /\ cons' \in Signalled
                /\ state' = nx.state
                /\ stateLen' = nx.stateLen
                /\ nsErr' = nx.err
                /\ nsDone' = (nsDone \/ nx.err = "EOF")
                /\ ppc' = [ppc EXCEPT ![r] =
                              IF nx.err = "nil" THEN "loop"
                              ELSE IF nx.err = "EOF" THEN "returned"
                              ELSE "panicked"]
                /\ genRet' = [genRet EXCEPT ![r] =
                                 IF nx.err = "EOF" THEN ReturnOf(nx.err) ELSE @]
                /\ bufR' = bufR
    /\ UNCHANGED <<pgVars, nRuns, ctx, startTime, endTime, errCh, runRet,
                   running, delivered, eofSeen, via, view>>

\* wordgen.go:181-190: runGenerator has returned; the goroutine clears
\* running and reports on errCh.
ProducerFinish(r) ==
    /\ ppc[r] = "returned"
    /\ ppc' = [ppc EXCEPT ![r] = "done"]
    /\ endTime' = r
    /\ running' = FALSE
    /\ UNCHANGED <<pgVars, bufVars, ctrVars, nRuns, ctx, startTime, errCh,
                   genRet, runRet, cons, histVars>>

\* A plausible slip of the goroutine: the value is sent a second time.
ProducerReportTwice(r) ==
    /\ ppc[r] \in {"done", "reported"}
    /\ ppc' = [ppc EXCEPT ![r] = "reported"]
    /\ errCh' = [errCh EXCEPT ![r] = [sent |-> Append(@.sent, genRet[r]),
                                      closed |-> TRUE]]
    /\ UNCHANGED <<pgVars, bufVars, ctrVars, nRuns, ctx, startTime, endTime,
                   genRet, runRet, running, cons, histVars>>

\* wordgen.go:188-190: the goroutine sends what runGenerator returned on
\* errCh (of capacity 1: the send does not block) and closes it.
ProducerReport(r) ==
    /\ ppc[r] = "done"
    /\ ppc' = [ppc EXCEPT ![r] = "reported"]
    /\ errCh' = [errCh EXCEPT ![r] = [sent |-> Append(@.sent, genRet[r]),
                                      closed |-> TRUE]]
    /\ UNCHANGED <<pgVars, bufVars, ctrVars, nRuns, ctx, startTime, endTime,
                   genRet, runRet, running, cons, histVars>>

-----------------------------------------------------------------------------
(* The consumers.                                                          *)

\* A plausible slip of the read: the slot written last, whatever r.
ReadSlotNewest(r) == buf[BitAnd(USub(bufW, 1), bufMask)]

\* wordgen.go:243-244: the slot Next and Batch read.
ReadSlot(r) == buf[BitAnd(r, bufMask)]

\* A plausible slip of the empty test: a stopped engine counts as empty.
BufferEmptyOrStopped == bufR >= bufW \/ ~running

\* wordgen.go:223, 235, 265, 277.
BufferEmpty == bufR >= bufW

\* A plausible slip of Next: the read cursor is not advanced.
NextTakeNoAdvance(s) ==
    /\ cons' = Moved(s, [Idle EXCEPT !.pc = "ret", !.op = "Next", !.ran = running])
    /\ bufR' = bufR
    /\ delivered' = Append(delivered, buf[BitAnd(bufR, bufMask)])
    /\ via' = via \cup {"Next"}
    /\ view' = [slot |-> BitAnd(bufR, bufMask), word |-> ReadSlot(bufR)]
    /\ UNCHANGED eofSeen

\* wordgen.go:243-249: Next, called by a consumer in state s, takes the
\* word at bufR and returns it.  The word is the content of the slot when
\* Next returns.
NextTake(s) ==
    /\ cons' = Moved(s, [Idle EXCEPT !.pc = "ret", !.op = "Next", !.ran = running])
    /\ bufR' = UAdd(bufR, 1)
    /\ delivered' = Append(delivered, ReadSlot(bufR))
    /\ via' = via \cup {"Next"}
    /\ view' = [slot |-> BitAnd(bufR, bufMask), word |-> ReadSlot(bufR)]
    /\ UNCHANGED eofSeen

\* wordgen.go:226-228, 236-239: Next returns io.EOF.
NextEOF(s) ==
    /\ cons' = Moved(s, [Idle EXCEPT !.pc = "ret", !.op = "Next", !.err = "EOF",
                                     !.ran = running])
    /\ eofSeen' = TRUE
    /\ view' = NoView
    /\ UNCHANGED <<bufR, delivered, via>>

\* wordgen.go:231-232: Next parks in genCond.Wait().
NextWait(s) ==
    /\ cons' = Moved(s, [Idle EXCEPT !.pc = "wait", !.op = "Next"])
    /\ view' = NoView
    /\ UNCHANGED <<bufR, delivered, eofSeen, via>>

\* wordgen.go:217-250: an idle consumer calls Next; the call runs to its
\* return or to genCond.Wait().
NextCall ==
    /\ constructed
    /\ Idle \in BagToSet(cons)
    /\ IF BufferEmpty
       THEN IF ~running THEN NextEOF(Idle) ELSE NextWait(Idle)
       ELSE NextTake(Idle)
    /\ UNCHANGED <<pgVars, buf, bufW, generated, ctrVars, runVars, lifeVars,
                   running, produced>>

\* wordgen.go:232-249: a signalled consumer returns from genCond.Wait()
\* holding the lock and finishes its call of Next.
NextWake(s) ==
    /\ s \in BagToSet(cons)
    /\ s.pc = "woken"
    /\ s.op = "Next"
    /\ IF BufferEmpty THEN NextEOF(s) ELSE NextTake(s)
    /\ UNCHANGED <<pgVars, buf, bufW, generated, ctrVars, runVars, lifeVars,
                   running, produced>>

\* A plausible slip of the loop of Batch: the read cursor is not advanced
\* after a word is copied.
RECURSIVE BatchLoopNoAdvance(_, _, _, _)
BatchLoopNoAdvance(n, count, r, ws) ==
    IF count >= n
    THEN [pc |-> "ret", count |-> count, bufR |-> r, taken |-> ws]
    ELSE IF r >= bufW
    THEN [pc |-> IF ~running THEN "ret" ELSE "wait",
          count |-> count, bufR |-> r, taken |-> ws]
    ELSE BatchLoopNoAdvance(n, count + 1, r, Append(ws, ReadSlot(r)))

\* wordgen.go:263-304: the loop of Batch from its head, with count words
\* copied so far (i and count advance together) and bufR = r: where the
\* call is when it next releases the lock, and the words ws it has copied
\* out of their slots, into words[i], since it took the lock.
RECURSIVE BatchLoop(_, _, _, _)
BatchLoop(n, count, r, ws) ==
    IF count >= n
    THEN [pc |-> "ret", count |-> count, bufR |-> r, taken |-> ws]
    ELSE IF r >= bufW
    THEN [pc |-> IF ~running THEN "ret" ELSE "wait",
          count |-> count, bufR |-> r, taken |-> ws]
    ELSE BatchLoop(n, count + 1, UAdd(r, 1), Append(ws, ReadSlot(r)))

\* The call of Batch (n slots) of a consumer in state s goes on to where
\* out says.
BatchGoes(s, n, out) ==
    /\ cons' = Moved(s, [Idle EXCEPT !.pc = out.pc, !.op = "Batch", !.n = n,
                                     !.count = out.count,
                                     !.ran = (out.pc = "ret" /\ running)])
    /\ bufR' = out.bufR
    /\ delivered' = delivered \o out.taken
    /\ via' = IF out.taken = <<>> THEN via ELSE via \cup {"Batch"}
    /\ view' = NoView

\* wordgen.go:255-305: an idle consumer calls Batch with n destination
\* slots.
BatchCall(n) ==
    /\ constructed
    /\ Idle \in BagToSet(cons)
    /\ IF n = 0
       THEN BatchGoes(Idle, n, [pc |-> "ret", count |-> 0, bufR |-> bufR,
                                taken |-> <<>>])
       ELSE BatchGoes(Idle, n, BatchLoop(n, 0, bufR, <<>>))
    /\ UNCHANGED <<pgVars, buf, bufW, generated, ctrVars, runVars, lifeVars,
                   running, produced, eofSeen>>

\* wordgen.go:274-301: a signalled consumer returns from genCond.Wait()
\* holding the lock and goes on with its call of Batch.
BatchWake(s) ==
    /\ s \in BagToSet(cons)
    /\ s.pc = "woken"
    /\ s.op = "Batch"
    /\ IF BufferEmpty
       THEN BatchGoes(s, s.n, [pc |-> "ret", count |-> s.count, bufR |-> bufR,
                               taken |-> <<>>])
       ELSE BatchGoes(s, s.n, BatchLoop(s.n, s.count + 1, UAdd(bufR, 1),
                                        <<ReadSlot(bufR)>>))
    /\ UNCHANGED <<pgVars, buf, bufW, generated, ctrVars, runVars, lifeVars,
                   running, produced, eofSeen>>

\* The caller takes what its call returned and is free to call again.
Return(s) ==
    /\ s \in BagToSet(cons)
    /\ s.pc = "ret"
    /\ cons' = Moved(s, Idle)
    /\ UNCHANGED <<pgVars, bufVars, ctrVars, runVars, lifeVars, running,
                   histVars>>

-----------------------------------------------------------------------------
(* Configurations and specifications.                                      *)

\* The bytes the charsets are made of.
Alphabet == <<"a", "b", "c", "d", "e">>

Charsets == {SubSeq(Alphabet, 1, k) : k \in 1..MaxCharset}

\* The words over cs of the lengths lo..hi.
RECURSIVE WordsOver(_, _, _)
WordsOver(cs, lo, hi) ==
    IF lo > hi THEN {}
    ELSE [1..lo -> {cs[i] : i \in 1..Len(cs)}] \cup WordsOver(cs, lo + 1, hi)

\* The configurations of the tests of part_000 (lines 69-89), and the first
\* of them with the smaller buffers.
TestConfigs ==
    [ Charset : {<<"a", "b", "c">>}, InitialState : {<<>>}, MinLen : {1},
      MaxLen : {2}, BufferSize : (0..MaxBufferSize) \cup {10} ]
    \cup
    [ Charset : {<<"a", "b", "c">>}, InitialState : {<<"b", "a">>}, MinLen : {1},
      MaxLen : {2}, BufferSize : {10} ]

\* Engines with no InitialState.
PlainConfigs ==
    [ Charset : Charsets, InitialState : {<<>>}, MinLen : 1..MaxLenBound,
      MaxLen : 1..MaxLenBound, BufferSize : 0..MaxBufferSize ]

\* Engines with an InitialState, valid or not.
SeededConfigs ==
    [ Charset : Charsets, InitialState : WordsOver(Alphabet, 1, MaxLenBound),
      MinLen : 1..MaxLenBound, MaxLen : 1..MaxLenBound,
      BufferSize : {MaxBufferSize} ]

\* Two-letter engines for the runs with several consumers, or with Stop and
\* cancellation: a, b, aa, ba, ab, bb, through the smallest buffer and the
\* largest.
ConcurrentConfigs ==
    [ Charset : {<<"a", "b">>}, InitialState : {<<>>}, MinLen : {1},
      MaxLen : {2}, BufferSize : {1, MaxBufferSize} ]

\* Every requested BufferSize.
SizeConfigs ==
    [ Charset : {<<"a", "b">>}, InitialState : {<<>>}, MinLen : {1},
      MaxLen : {2}, BufferSize : 0..(UintRange - 1) ]

\* Run has been called.
Started == nRuns > 0

\* One run of the engine, Run called before any consumer: NumConsumers
\* consumers calling Next and Batch, Stop and cancellation at any time.
InitOneRun == \E cfg \in ConcurrentConfigs : Built(cfg, NumConsumers)

NextOneRun ==
    \/ Run(1)
    \/ Started /\ Stop
    \/ CtxDone(1)
    \/ ProducerStep(1)
    \/ ProducerFinish(1)
    \/ ProducerReport(1)
    \/ Started /\ NextCall
    \/ \E s \in BagToSet(cons) : NextWake(s)
    \/ \E n \in 0..MaxBatch : Started /\ BatchCall(n)
    \/ \E s \in BagToSet(cons) : BatchWake(s)
    \/ \E s \in BagToSet(cons) : Return(s)

SpecOneRun == InitOneRun /\ [][NextOneRun]_vars

\* The same, with the scheduling the Go runtime gives: a goroutine that can
\* take a step takes it in the end (the producer goroutine, a signalled
\* consumer, a caller holding a result).  Nothing makes anybody call Run,
\* Stop, Next or Batch, or cancel the context.
FairOneRun ==
    /\ SpecOneRun
    /\ WF_vars(ProducerStep(1))
    /\ WF_vars(ProducerFinish(1))
    /\ WF_vars(ProducerReport(1))
    /\ WF_vars(\E s \in BagToSet(cons) : NextWake(s))
    /\ WF_vars(\E s \in BagToSet(cons) : BatchWake(s))
    /\ WF_vars(\E s \in BagToSet(cons) : Return(s))

\* One run that is never stopped or cancelled, one consumer calling Next
\* again and again.
InitUninterrupted ==
    \E cfg \in PlainConfigs \cup SeededConfigs \cup TestConfigs : Built(cfg, 1)

NextUninterrupted ==
    \/ Run(1)
    \/ ProducerStep(1)
    \/ ProducerFinish(1)
    \/ ProducerReport(1)
    \/ Started /\ NextCall
    \/ \E s \in BagToSet(cons) : NextWake(s)
    \/ \E s \in BagToSet(cons) : Return(s)

SpecUninterrupted == InitUninterrupted /\ [][NextUninterrupted]_vars

\* One run, one consumer mixing Next and Batch, Stop and cancellation at
\* any time.
InitSolo == \E cfg \in ConcurrentConfigs : Built(cfg, 1)

NextSolo ==
    \/ Run(1)
    \/ Started /\ Stop
    \/ CtxDone(1)
    \/ ProducerStep(1)
    \/ ProducerFinish(1)
    \/ ProducerReport(1)
    \/ Started /\ NextCall
    \/ \E s \in BagToSet(cons) : NextWake(s)
    \/ \E n \in 0..MaxBatchSolo : Started /\ BatchCall(n)
    \/ \E s \in BagToSet(cons) : BatchWake(s)
    \/ \E s \in BagToSet(cons) : Return(s)

SpecSolo == InitSolo /\ [][NextSolo]_vars

\* One consumer mixing Next and Batch, with the scheduling of FairOneRun.
FairSolo ==
    /\ SpecSolo
    /\ WF_vars(ProducerStep(1))
    /\ WF_vars(ProducerFinish(1))
    /\ WF_vars(ProducerReport(1))
    /\ WF_vars(\E s \in BagToSet(cons) : NextWake(s))
    /\ WF_vars(\E s \in BagToSet(cons) : BatchWake(s))
    /\ WF_vars(\E s \in BagToSet(cons) : Return(s))

\* A goroutine has panicked: the process is gone.
Crashed == \E r \in Runs : ppc[r] = "panicked"

\* An engine run, stopped or cancelled and run again, up to MaxRuns runs,
\* Run also called while it is running; one consumer calling Next.
RestartConfigs ==
    [ Charset : {<<"a", "b">>}, InitialState : {<<>>}, MinLen : {1},
      MaxLen : {1}, BufferSize : {1} ]

InitRestart == \E cfg \in RestartConfigs : Built(cfg, 1)

NextRestart ==
    \/ \E r \in Runs : ~Crashed /\ Run(r)
    \/ ~Crashed /\ RunAgain
    \/ ~Crashed /\ Started /\ Stop
    \/ \E r \in Runs : ~Crashed /\ CtxDone(r)
    \/ \E r \in Runs : ~Crashed /\ ProducerStep(r)
    \/ \E r \in Runs : ~Crashed /\ ProducerFinish(r)
    \/ \E r \in Runs : ~Crashed /\ ProducerReport(r)
    \/ ~Crashed /\ Started /\ NextCall
    \/ \E s \in BagToSet(cons) : ~Crashed /\ NextWake(s)
    \/ \E s \in BagToSet(cons) : ~Crashed /\ Return(s)

SpecRestart == InitRestart /\ [][NextRestart]_vars

\* The counter alone: Run sets it to the initial state and nextState is
\* called again and again, also after it has returned io.EOF.
InitCounter == \E cfg \in PlainConfigs \cup SeededConfigs : Built(cfg, 1)

NextCounter ==
    \/ Run(1)
    \/ NextStateCall

SpecCounter == InitCounter /\ [][NextCounter]_vars

\* The construction of an engine, for every BufferSize.
InitSizes == \E cfg \in SizeConfigs : Unbuilt(cfg)

NextSizes == NewWordGen

SpecSizes == InitSizes /\ [][NextSizes]_vars

-----------------------------------------------------------------------------
(* The enumeration, stated without the counter.                            *)

\* The k-th word (k from 0) of length len over cs: position i of the word
\* is digit i - 1 of k written in base Len(cs), least significant first.
WordAt(cs, len, k) ==
    [i \in 1..len |-> cs[((k \div Pow(Len(cs), i - 1)) % Len(cs)) + 1]]

\* The words of the lengths lo..hi over cs: shorter words first, and the
\* words of one length in the order of the numbers they stand for.
RECURSIVE Enumeration(_, _, _)
Enumeration(cs, lo, hi) ==
    IF lo > hi THEN <<>>
    ELSE [k \in 1..Pow(Len(cs), lo) |-> WordAt(cs, lo, k - 1)]
         \o Enumeration(cs, lo + 1, hi)

\* The enumeration of the engine's configuration.
FullEnumeration == Enumeration(config.Charset, config.MinLen, config.MaxLen)

\* R^lo + ... + R^hi.
RECURSIVE SumOfPowers(_, _, _)
SumOfPowers(R, lo, hi) ==
    IF lo > hi THEN 0 ELSE Pow(R, lo) + SumOfPowers(R, lo + 1, hi)

IsPrefix(a, b) == Len(a) <= Len(b) /\ SubSeq(b, 1, Len(a)) = a

\* The sequence of section 8 of the specification for "abc", 1, 2.
AbcWords ==
    << <<"a">>, <<"b">>, <<"c">>,
       <<"a","a">>, <<"b","a">>, <<"c","a">>,
       <<"a","b">>, <<"b","b">>, <<"c","b">>,
       <<"a","c">>, <<"b","c">>, <<"c","c">> >>

IsAbcConfig ==
    /\ config.Charset = <<"a", "b", "c">>
    /\ config.MinLen = 1
    /\ config.MaxLen = 2

-----------------------------------------------------------------------------
(* The claims.                                                             *)

\* C1: in a run that is never stopped or cancelled, from the default
\* initial state, the words one consumer gets from Next are, in order, the
\* first words of the enumeration: shorter words first, position 0 changing
\* fastest, no reversal; for "abc", 1, 2 they are the first of a, b, c, aa,
\* ba, ca, ab, bb, cb, ac, bc, cc, whatever the BufferSize, and all of them
\* once Next has returned io.EOF.
C1_OdometerOrder ==
    config.InitialState = <<>> =>
        /\ IsPrefix(delivered, FullEnumeration)
        /\ IsAbcConfig => IsPrefix(delivered, AbcWords)
        /\ IsAbcConfig /\ eofSeen => delivered = AbcWords

\* C1, reached: the twelve words of "abc", 1, 2 have been delivered through
\* the 8 slots the test's BufferSize of 10 gives.
C1_Witness ==
    /\ IsAbcConfig
    /\ config.InitialState = <<>>
    /\ config.BufferSize = 10
    /\ delivered = AbcWords

\* C2: in a run that is never stopped or cancelled, from the default
\* initial state, once Next has returned io.EOF to the one consumer the
\* words it got before are R^MinLen + ... + R^MaxLen in number.
C2_CountBeforeEOF ==
    config.InitialState = <<>> /\ eofSeen =>
        Len(delivered) = SumOfPowers(Len(config.Charset), config.MinLen, config.MaxLen)

\* C2, reached: io.EOF after the 2 + 4 words of a two-letter charset.
C2_Witness ==
    /\ config.InitialState = <<>>
    /\ eofSeen
    /\ Len(config.Charset) = 2
    /\ config.MinLen = 1
    /\ config.MaxLen = 2
    /\ Len(delivered) = 6

\* C3: with several consumers calling Next and Batch during one run, the
\* k-th word handed to a call is the k-th word the producer committed: no
\* committed word is handed out twice, none is skipped, and what has been
\* handed out is the enumeration up to there, each word once.
C3_ExactlyOnce ==
    /\ IsPrefix(delivered, produced)
    /\ IsPrefix(produced, FullEnumeration)
    /\ \A i, j \in 1..Len(delivered) : i # j => delivered[i] # delivered[j]

\* C3, reached: two consumers hold results at once, one from Next and one
\* from Batch, and the six words have all been handed out.
C3_Witness ==
    /\ \E s, t \in BagToSet(cons) :
          /\ s.pc = "ret" /\ s.op = "Next" /\ s.err = "nil"
          /\ t.pc = "ret" /\ t.op = "Batch" /\ t.count = 1
    /\ via = {"Next", "Batch"}
    /\ delivered = FullEnumeration
    /\ Len(delivered) = 6

\* A consumer is inside genCond.Wait(): parked, or signalled and about to
\* take the lock again.
Blocked == \E s \in BagToSet(cons) : s.pc \in {"wait", "woken"}

\* C4: once running has been cleared (by Stop, by cancellation, or by the
\* producer goroutine after the last word), every consumer blocked in Next
\* or Batch returns in the end.
C4_BlockedConsumersReturn == (Started /\ ~running) ~> ~Blocked

\* In this step an idle consumer calls Next and the call returns a word
\* at once.
FreshNextReturnsWord ==
    /\ CopiesIn(Idle, cons') < CopiesIn(Idle, cons)
    /\ \E s \in BagToSet(cons') :
          /\ s.pc = "ret" /\ s.op = "Next" /\ s.err = "nil"
          /\ CopiesIn(s, cons') > CopiesIn(s, cons)

\* C5: once a call of Next has returned io.EOF, a call of Next made later
\* returns io.EOF too and never a word, with any number of consumers.
\* (Stated for the later calls that return without waiting.)
C5_EOFIsFinal == [][eofSeen => ~FreshNextReturnsWord]_vars

\* In this step a call returns the end of the sequence: Next returns
\* io.EOF, or Batch returns fewer words than it has slots.
EndReturned ==
    \E s \in BagToSet(cons') :
       /\ s.pc = "ret"
       /\ s.err = "EOF" \/ (s.op = "Batch" /\ s.count < s.n)
       /\ CopiesIn(s, cons') > CopiesIn(s, cons)

\* C6: Stop and cancellation discard nothing: clearing running leaves the
\* buffer and its cursors as they are, and when a call returns io.EOF or a
\* short count, every word committed to the buffer has been handed out
\* before, in the order of the commits.
C6_BufferedWordsFirst ==
    [][ /\ running /\ ~running' => UNCHANGED <<buf, bufR, bufW>>
        /\ EndReturned => delivered' = produced' ]_vars

\* C6, reached: the run was stopped before the last word; after that one
\* consumer took a buffered word and another got io.EOF.
C6_Witness ==
    /\ ~running
    /\ Len(produced) < 6
    /\ \E s, t \in BagToSet(cons) :
          /\ s.pc = "ret" /\ s.op = "Next" /\ s.err = "nil" /\ ~s.ran
          /\ t.pc = "ret" /\ t.op = "Next" /\ t.err = "EOF" /\ ~t.ran
    /\ delivered = produced
    /\ Len(delivered) >= 2

\* The enumeration from its word w on.
EnumerationFrom(w) ==
    LET all == FullEnumeration
        at  == CHOOSE k \in 1..Len(all) : all[k] = w
    IN  SubSeq(all, at, Len(all))

\* The words from "ba" on for "abc", 1, 2.
AbcWordsFromBa == SubSeq(AbcWords, 5, 12)

\* C7: with an InitialState S the first word delivered is S and the next
\* are the words that follow S in the enumeration of MinLen..MaxLen, with
\* no restart at MinLen; for "abc", "ba", 1, 2 they begin ba, ca, ab, bb,
\* cb.
C7_StartsAtInitialState ==
    config.InitialState # <<>> =>
        /\ delivered # <<>> => delivered[1] = config.InitialState
        /\ IsPrefix(delivered, EnumerationFrom(config.InitialState))
        /\ eofSeen => delivered = EnumerationFrom(config.InitialState)
        /\ IsAbcConfig /\ config.InitialState = <<"b", "a">>
              => IsPrefix(delivered, AbcWordsFromBa)

\* C7, reached: the test's engine has delivered ba, ca, ab, bb, cb.
C7_Witness ==
    /\ IsAbcConfig
    /\ config.InitialState = <<"b", "a">>
    /\ delivered = << <<"b","a">>, <<"c","a">>, <<"a","b">>, <<"b","b">>,
                      <<"c","b">> >>

\* C8: the cursors satisfy bufR <= bufW <= bufR + capacity; the slots from
\* bufR up to bufW hold the committed words nobody has read yet (the
\* producer has overwritten none of them), and the consumers have read no
\* further than the words committed.
C8_CursorsWithinCapacity ==
    constructed =>
        /\ bufR <= bufW
        /\ bufW <= bufR + bufSize
        /\ bufW = Len(produced)
        /\ bufR = Len(delivered)
        /\ \A i \in bufR..(bufW - 1) : ReadSlot(i) = produced[i + 1]

\* C8, reached: the buffer is full, of two slots or more, after a consumer
\* has read: the producer is held off a slot it has already used.
C8_Witness ==
    /\ running
    /\ bufSize >= 2
    /\ bufR > 0
    /\ bufW = bufR + bufSize

\* The powers of two an unsigned integer can hold.
PowersOfTwo == {Pow(2, e) : e \in 0..(WordBits - 1)}

\* The BufferSize NewWordGen goes by: at least 1.
Requested == IF request.BufferSize < 1 THEN 1 ELSE request.BufferSize

\* |a - b|.
Dist(a, b) == IF a >= b THEN a - b ELSE b - a

\* C9 as stated: the capacity is the smallest power of two that is
\* >= max(n, 1) for the requested BufferSize n, so never smaller than n.
C9_SmallestPowerOfTwoAtLeast ==
    constructed =>
        /\ bufSize \in PowersOfTwo
        /\ bufSize >= Requested
        /\ \A p \in PowersOfTwo : p >= Requested => bufSize <= p

\* C9, amended: for max(n, 1) up to half the unsigned range the capacity is
\* the power of two nearest to it, the larger one on a tie, and so can be
\* smaller than n; above half the range (where no power of two lies) it
\* is 0.
C9_NearestPowerOfTwo ==
    constructed =>
        IF Requested <= UintRange \div 2
        THEN /\ bufSize \in PowersOfTwo
             /\ \A p \in PowersOfTwo :
                   \/ Dist(bufSize, Requested) < Dist(p, Requested)
                   \/ /\ Dist(bufSize, Requested) = Dist(p, Requested)
                      /\ p <= bufSize
        ELSE bufSize = 0

\* C9, reached: the tests' BufferSize 10 gives a capacity of 8.
C9_Witness ==
    /\ constructed
    /\ request.BufferSize = 10
    /\ bufSize = 8

\* C10: one consumer mixing Next and Batch receives, call after call and
\* slot after slot, a prefix of the enumeration: the order of a run read
\* with Next alone.
C10_MixedCallsKeepOrder ==
    /\ IsPrefix(delivered, produced)
    /\ constructed => IsPrefix(delivered, FullEnumeration)

\* C10, reached: the whole enumeration has been delivered, part by Next and
\* part by Batch.
C10_Witness ==
    /\ via = {"Next", "Batch"}
    /\ delivered = FullEnumeration
    /\ eofSeen

\* The error of Run called on a running engine.
AlreadyRunning == "generator is already running"

\* C11: a call of Run that finds the engine running returns the "already
\* running" error and no channel (and every call of Run made while it is
\* running returns so), and the cursors, the buffer, the counter, running,
\* the start and end times and the produced count are as before; no
\* goroutine is started and no channel made.
C11_RunWhileRunningChangesNothing ==
    [][ /\ running /\ runRet' # runRet => runRet'.err = AlreadyRunning
        /\ runRet'.err = AlreadyRunning /\ runRet' # runRet =>
              /\ runRet'.ch = 0
              /\ UNCHANGED <<bufVars, ctrVars, running, startTime, endTime,
                             runVars, errCh, genRet>> ]_vars

\* C11, reached: Run has been refused on a running engine whose producer
\* has committed words and whose counter has moved on.
C11_Witness ==
    /\ runRet.err = AlreadyRunning
    /\ running
    /\ bufW > 0
    /\ state # initialState

\* C12: on the channel of each run at most one value is ever sent; it is
\* sent only once that run's producer loop has exited and its goroutine
\* has cleared running, and the channel is closed with it; a closed
\* channel has carried exactly one value; a successful Run returns the
\* channel of its own run.
C12_CompletionOnce ==
    /\ \A r \in Runs :
          /\ Len(errCh[r].sent) <= 1
          /\ errCh[r].sent # <<>> =>
                errCh[r].closed /\ ppc[r] = "reported" /\ genRet[r] # "none"
          /\ errCh[r].closed => Len(errCh[r].sent) = 1
          /\ ppc[r] = "reported" => Len(errCh[r].sent) = 1
    /\ runRet.err = "nil" => runRet.ch = nRuns

\* C12, reached: two runs have each reported their completion.
C12_Witness ==
    \A r \in 1..2 : Len(errCh[r].sent) = 1 /\ errCh[r].closed

\* C13: every value sent on a completion channel, and every value
\* runGenerator returns, is nil: whether the run was stopped, cancelled or
\* exhausted.
C13_CompletionIsNil ==
    \A r \in Runs :
        /\ genRet[r] \in {"none", "nil"}
        /\ \A i \in 1..Len(errCh[r].sent) : errCh[r].sent[i] = "nil"

\* C13, reached: run 1 wrote one word and was stopped or cancelled, run 2
\* went through the whole enumeration, which the consumer saw end with
\* io.EOF; either reported nil.
C13_Witness ==
    /\ errCh[1].sent = <<"nil">>
    /\ errCh[2].sent = <<"nil">>
    /\ produced = << <<"a">>, <<"a">>, <<"b">> >>
    /\ stateLen > config.MaxLen
    /\ eofSeen

\* The words a run read to its end delivers, as a function of the charset,
\* the two lengths and the InitialState, and of nothing else.
DeliveredFor(cs, lo, hi, init) ==
    LET all == Enumeration(cs, lo, hi)
    IN  IF init = <<>> THEN all
        ELSE SubSeq(all, CHOOSE k \in 1..Len(all) : all[k] = init, Len(all))

\* C14: what one consumer has received is at every moment a prefix of one
\* sequence fixed by Charset, MinLen, MaxLen and InitialState, and all of
\* it at io.EOF: two runs with these four equal deliver the same words in
\* the same order whatever their BufferSize and however the producer and
\* the consumer interleave.
C14_DeterminedByConfig ==
    constructed =>
        LET fixed == DeliveredFor(config.Charset, config.MinLen, config.MaxLen,
                                  config.InitialState)
        IN  /\ IsPrefix(delivered, fixed)
            /\ eofSeen => delivered = fixed

\* C14, reached: a buffer of one slot, where the producer waits for the
\* consumer at every word, has delivered the twelve words that the buffer
\* of 8 slots delivers.
C14_Witness ==
    /\ IsAbcConfig
    /\ config.InitialState = <<>>
    /\ bufSize = 1
    /\ eofSeen
    /\ delivered = DeliveredFor(<<"a", "b", "c">>, 1, 2, <<>>)

C16_LengthWithinBounds ==
    \A i \in 1..Len(delivered) :
        /\ config.MinLen <= Len(delivered[i])
        /\ Len(delivered[i]) <= config.MaxLen

\* C16, reached: with two consumers, words of MinLen and words of MaxLen
\* bytes, MinLen < MaxLen, have been delivered by Next and by Batch.
C16_Witness ==
    /\ NumConsumers >= 2
    /\ config.MinLen < config.MaxLen
    /\ via = {"Next", "Batch"}
    /\ \E i, j \in 1..Len(delivered) :
          /\ Len(delivered[i]) = config.MinLen
          /\ Len(delivered[j]) = config.MaxLen

\* C17: on an engine run once, the count Stats reports is at every moment
\* the number of words committed to the buffer (0 before Run); once the
\* completion of a run from the default initial state is on its channel
\* the count is R^MinLen + ... + R^MaxLen.
C17_StatsCountsCommitted ==
    constructed =>
        /\ Stats.generated = Len(produced)
        /\ Stats.generated = bufW
        /\ errCh[1].closed /\ config.InitialState = <<>> =>
              Stats.generated =
                  SumOfPowers(charsetLen, config.MinLen, config.MaxLen)

\* C17, reached: the run of "abc", 1, 2 has reported its completion and
\* Stats counts 12 words, over the time from start to end.
C17_Witness ==
    /\ IsAbcConfig
    /\ config.InitialState = <<>>
    /\ errCh[1].sent = <<"nil">>
    /\ Stats = [generated |-> 12, elapsed |-> "end - start"]

\* C18: a call of Next that returns io.EOF returns it with the buffer
\* empty and the engine no longer running, however many consumers there
\* are.
C18_EOFOnlyWhenStopped ==
    \A s \in BagToSet(cons) :
        s.pc = "ret" /\ s.op = "Next" /\ s.err = "EOF" => ~s.ran

\* C19: a call of Batch with n slots returns a count in 0..n, and a count
\* below n only with the engine stopped (and the buffer empty).
C19_ShortBatchOnlyWhenStopped ==
    \A s \in BagToSet(cons) :
        s.pc = "ret" /\ s.op = "Batch" =>
            /\ s.count \in 0..s.n
            /\ s.count < s.n => ~s.ran

\* The producer loops that have not returned.
ActiveLoops == {r \in Runs : ppc[r] = "loop"}

\* C20: while the engine is running at most one producer loop is active:
\* a Run that succeeds after a Stop finds the loop of the earlier run gone.
C20_OneProducerLoop == running => Cardinality(ActiveLoops) <= 1

\* C21: the slot whose slice Next returned holds the bytes it held at the
\* return for as long as the consumer has not called Next or Batch again.
C21_ViewNotRewritten ==
    view # NoView => buf[view.slot] = view.word

\* C22: once the engine has been started and running is cleared (by Stop,
\* by the context, or by the producer), the producer loop exits and its
\* completion is sent on the channel, which is closed: whether or not the
\* buffer is full and whether or not anybody reads.
C22_StopEndsTheRun ==
    (Started /\ ~running) ~> (ppc[1] = "reported" /\ errCh[1].closed)

\* C22, reached: the run was cancelled with the buffer full and part of
\* the enumeration still to come, nobody has read a word, and the
\* completion is on the channel.
C22_Witness ==
    /\ ctx[1] = "done"
    /\ BufferFull
    /\ delivered = <<>>
    /\ Len(produced) < Len(FullEnumeration)
    /\ errCh[1].sent = <<"nil">>
    /\ errCh[1].closed

\* C23: once nextState has returned io.EOF, every further call returns
\* io.EOF: the last call's result is io.EOF whenever one before it was.
C23_ExhaustedIsTerminal == nsDone => nsErr = "EOF"

\* A producer loop is about to encode the counter into a slot: the engine
\* is running and the buffer has room.
AboutToEncode == running /\ ~BufferFull /\ ActiveLoops # {}

\* C24: whenever a producer loop encodes the counter into a slot the length
\* is MinLen..MaxLen, there are that many digits and each is below R; no
\* loop has panicked on a slice or an index out of range.
C24_EncodeWithinCapacity ==
    /\ ~Crashed
    /\ AboutToEncode =>
          /\ config.MinLen <= stateLen
          /\ stateLen <= config.MaxLen
          /\ stateLen <= Len(state)
          /\ \A i \in 1..Len(state) : state[i] < charsetLen

\* The context of run r is cancelled in this step, after run r has
\* reported its completion and a later Run has started a run.
LateCancel(r) ==
    /\ ctx[r] = "live"
    /\ ctx'[r] = "done"
    /\ ppc[r] = "reported"
    /\ nRuns > r

\* C25: the cancellation of the context of a completed run leaves the
\* running flag of a later run as it is.
C25_OldContextHarmless ==
    [][\A r \in Runs : LateCancel(r) => running' = running]_vars

=============================================================================
